---------------------------- MODULE Spec2Model ----------------------------
(***************************************************************************)
(* ThumbnailManager (thumbnail_manager.py): a thumbnail cache keyed by the *)
(* md5 of the image URL.                                                   *)
(*                                                                         *)
(* Representation.  A file name is the sequence of its '.'-separated       *)
(* components, so filename.split('.') is the sequence itself and           *)
(* '.'.join(parts) builds it (md5 hex digests, "WxH" sizes and PIL format  *)
(* names hold no '.').  A path is a record [dir, name].  A directory is a  *)
(* function from the names it holds to the bytes of each file; bytes are   *)
(* what Image.open makes of them: [fmt, w, h], with fmt = "" for bytes     *)
(* that are no image.  Every method is one action; the network, the wget   *)
(* fallback and the file system answer by inputs drawn with \E.            *)
(***************************************************************************)
EXTENDS Integers, Sequences, FiniteSets, TLC

VARIABLES
    thumbnail_size,       \* self.thumbnail_size
    min_image_size,       \* self.min_image_size
    save_original,        \* self.save_original
    cache_dir,            \* TRUE iff a cache_dir was given (thumbnails_dir / originals_dir are set)
    file_names,           \* self.file_names: hash_id -> thumbnail file name
    original_file_names,  \* self.original_file_names: hash_id -> original file name
    disk,                 \* the three directories: THUMBNAILS_DIR, ORIGINALS_DIR, TMP_DIR
    ncalls,               \* number of constructor / method calls made so far
    last                  \* what the last call was, what it returned and what it did

vars == <<thumbnail_size, min_image_size, save_original, cache_dir,
          file_names, original_file_names, disk, ncalls, last>>

config == <<thumbnail_size, min_image_size, save_original, cache_dir>>

-----------------------------------------------------------------------------
(* Bounds and constants *)

MaxCalls == 2

DEFAULT_SIZE == <<400, 400>>
OTHER_SIZE == <<200, 200>>
MIN_REQUIRED_IMAGE_SIZE == <<0, 0>>
STRICT_MIN_SIZE == <<2, 2>>
TMP_DIR == "/tmp/"
ORIGINALS_DIR == "originals"
THUMBNAILS_DIR == "thumbnails"

Urls == {"https://example.com/a.jpg", "https://example.com/b.png"}

ThumbnailSizes == {DEFAULT_SIZE, OTHER_SIZE}
MinImageSizes == {MIN_REQUIRED_IMAGE_SIZE, STRICT_MIN_SIZE}

\* Bytes a server (or wget) may deliver: images of two formats, one of them
\* too narrow for STRICT_MIN_SIZE, and bytes that are no image.
NotAnImage == [fmt |-> "", w |-> 0, h |-> 0]
Jpeg3x3 == [fmt |-> "JPEG", w |-> 3, h |-> 3]
Png3x3 == [fmt |-> "PNG", w |-> 3, h |-> 3]
Jpeg1x3 == [fmt |-> "JPEG", w |-> 1, h |-> 3]
Images == {Jpeg3x3, Png3x3, Jpeg1x3}
Bytes == Images \cup {NotAnImage}

\* The outcomes of urllib.request.Request / urlopen / read that
\* fetch_original_image tells apart; "OtherError" is an exception none of
\* its except clauses names (e.g. http.client.IncompleteRead).
NetOutcomes == {"ok", "TimeoutError", "ValueError", "HTTP403", "HTTP404",
                "URLError", "OtherError"}

\* At most one file-system operation of a call fails.
\*   "write_exists": open(image_file, 'wb') raises FileExistsError
\*   "write"       : open / write raises another OSError
\*   "save"        : ImageOps.pad(...).save raises
\*   "reconcile"   : os.remove / os.rename of the original raises
Failures == {"none", "write_exists", "write", "save", "reconcile"}

\* What the world outside answers to one generate_thumbnail call:
\*   net:     the outcome of Request / urlopen / read
\*   data:    the bytes the server (or wget) delivers
\*   wget:    whether the wget command line writes /tmp/<hash_id> (wget -O
\*            creates or truncates it, also when the download fails); if it
\*            does not, a file an earlier call left there is read instead
\*   failure: the file-system operation that fails, if any
answer(net, data, wget, failure) ==
    [net |-> net, data |-> data, wget |-> wget, failure |-> failure]

\* Every network outcome with every kind of bytes, and every file-system
\* failure at each place of the code where it can strike.
Answers ==
    {answer(net, NotAnImage, FALSE, "none") : net \in NetOutcomes \ {"ok"}}
    \cup {answer("ok", data, FALSE, "none") : data \in Bytes}
    \cup {answer("HTTP403", data, TRUE, "none") : data \in {Jpeg3x3, NotAnImage}}
    \cup {answer("ok", Jpeg3x3, FALSE, failure) : failure \in Failures}
    \cup {answer("ok", Jpeg1x3, FALSE, "reconcile")}

None == [dir |-> "", name |-> <<>>]
NoImage == [fmt |-> "", w |-> -1, h |-> -1]

-----------------------------------------------------------------------------
(* Strings, paths and directories *)

\* hashlib.md5(image_url.encode("utf-8")).hexdigest()
md5_hexdigest(image_url) ==
    CASE image_url = "https://example.com/a.jpg" -> "7cff6e664a8bf6783610a2814043d343"
      [] image_url = "https://example.com/b.png" -> "85efc80e9f4d19b93a614ce5927f9e7a"

\* 'x'.join(map(str, self.thumbnail_size))
size_str(size) == ToString(size[1]) \o "x" \o ToString(size[2])

\* image.format.lower()
lower(format) ==
    CASE format = "JPEG" -> "jpeg"
      [] format = "PNG" -> "png"
      [] OTHER -> format

\* os.path.join(dir, name)
path_join(dir, name) == [dir |-> dir, name |-> name]

\* os.path.exists(path)
path_exists(d, path) == path.name \in DOMAIN d[path.dir]

\* open(path, 'wb').write(data), and Image.save(fp=path)
write_file(d, path, data) ==
    [d EXCEPT ![path.dir] =
        [n \in (DOMAIN d[path.dir]) \cup {path.name} |->
            IF n = path.name THEN data ELSE d[path.dir][n]]]

\* os.remove(path)
os_remove(d, path) ==
    [d EXCEPT ![path.dir] =
        [n \in (DOMAIN d[path.dir]) \ {path.name} |-> d[path.dir][n]]]

\* os.rename(src, dst), both in the same directory; dst is replaced
os_rename(d, src, dst) ==
    [d EXCEPT ![src.dir] =
        [n \in ((DOMAIN d[src.dir]) \ {src.name}) \cup {dst.name} |->
            IF n = dst.name THEN d[src.dir][src.name] ELSE d[src.dir][n]]]

\* del mapping[key]
del(mapping, key) == [k \in (DOMAIN mapping) \ {key} |-> mapping[k]]

EmptyDir == [n \in {} |-> NotAnImage]
EmptyIndex == [k \in {} |-> <<>>]

-----------------------------------------------------------------------------
(* __init__ *)

\* Mutant: split('.', n - 1)-like parsing that also takes longer names.
names_with_parts_at_least(dir, n) == {name \in DOMAIN dir : Len(name) >= n}

\* The names of a directory that split('.') into exactly n components.
names_with_parts(dir, n) == {name \in DOMAIN dir : Len(name) = n}

\* The loop "for filename in os.listdir(dir): (hash_id, ...) = filename.split('.');
\* index[hash_id] = filename": names that do not split into n components raise
\* ValueError and are skipped; of several names with one hash_id the last one
\* listed stays, and os.listdir lists in arbitrary order.
load_index(dir, n) ==
    {index \in [{name[1] : name \in names_with_parts(dir, n)} -> names_with_parts(dir, n)] :
        \A k \in DOMAIN index : index[k][1] = k}

Configs == ThumbnailSizes \X MinImageSizes \X BOOLEAN \X BOOLEAN

\* The fields a constructor call with arguments cfg sets, over directories d.
constructed(cfg, d) ==
    /\ thumbnail_size' = cfg[1]
    /\ min_image_size' = cfg[2]
    /\ save_original' = cfg[3]
    /\ cache_dir' = cfg[4]
    /\ file_names' \in (IF cfg[4] THEN load_index(d[THUMBNAILS_DIR], 3) ELSE {EmptyIndex})
    /\ original_file_names' \in
           (IF cfg[3] /\ cfg[4] THEN load_index(d[ORIGINALS_DIR], 2) ELSE {EmptyIndex})


-----------------------------------------------------------------------------
(* has_thumbnail, has_original *)

\* Mutant: the URL itself is looked up, not its hash_id.
has_thumbnail_by_url(image_url) ==
    IF image_url \in DOMAIN file_names
    THEN path_join(THUMBNAILS_DIR, file_names[image_url])
    ELSE None

has_thumbnail(image_url) ==
    LET hash_id == md5_hexdigest(image_url)
    IN  IF hash_id \in DOMAIN file_names
        THEN path_join(THUMBNAILS_DIR, file_names[hash_id])
        ELSE None

has_original(image_url) ==
    LET hash_id == md5_hexdigest(image_url)
    IN  IF hash_id \in DOMAIN original_file_names
        THEN path_join(ORIGINALS_DIR, original_file_names[hash_id])
        ELSE None

-----------------------------------------------------------------------------
(* fetch_original_image *)

\* Mutant: every HTTP error is answered with the wget fallback.
uses_fallback_any_http_error(net) == net \in {"HTTP403", "HTTP404"}

\* "if e.code == 403": the only HTTP error answered with the wget fallback
uses_fallback(net) == net = "HTTP403"

\* Where the fetched bytes are written.
fetched_image_file(hash_id) ==
    IF save_original
    THEN path_join(ORIGINALS_DIR, <<hash_id>>)
    ELSE path_join(TMP_DIR, <<"tmp_" \o hash_id>>)

\* net, data, wget_writes, failure: the world's answer (see Answers)
\* d: the directories before the call
\* Result: ret (the path written, or None), raised (an exception leaves the
\* method), gets / wgets (HTTP GETs and wget runs made), disk (directories after).
fetch_original_image(hash_id, net, data, wget_writes, failure, d) ==
    LET wget_file == path_join(TMP_DIR, <<hash_id>>)
        fallback == uses_fallback(net)
        d1 == IF fallback /\ wget_writes THEN write_file(d, wget_file, data) ELSE d
        \* Request(...) raises ValueError for a malformed URL before any GET
        gets == IF net = "ValueError" THEN 0 ELSE 1
        wgets == IF fallback THEN 1 ELSE 0
        have_data == net = "ok" \/ (fallback /\ path_exists(d1, wget_file))
        img_data == IF net = "ok" THEN data ELSE d1[TMP_DIR][<<hash_id>>]
        image_file == fetched_image_file(hash_id)
        out(ret, raised, dd) ==
            [ret |-> ret, raised |-> raised, gets |-> gets, wgets |-> wgets, disk |-> dd]
    IN  IF net = "OtherError" THEN out(None, TRUE, d1)
        ELSE IF ~have_data THEN out(None, FALSE, d1)
        \* os.path.join(self.originals_dir, hash_id) with originals_dir = None: TypeError
        ELSE IF save_original /\ ~cache_dir THEN out(None, TRUE, d1)
        ELSE IF failure = "write" THEN out(None, TRUE, d1)
        ELSE IF failure = "write_exists" THEN out(None, FALSE, d1)
        ELSE out(image_file, FALSE, write_file(d1, image_file, img_data))

-----------------------------------------------------------------------------
(* generate_thumbnail *)

\* Mutant: "and" for "or", so that one sufficient dimension lets the image pass.
is_too_small_both(image_size, min_size) ==
    image_size[1] < min_size[1] /\ image_size[2] < min_size[2]

\* "image_size[0] < self.min_image_size[0] or image_size[1] < self.min_image_size[1]"
is_too_small(image_size, min_size) ==
    image_size[1] < min_size[1] \/ image_size[2] < min_size[2]

\* Mutant: the fetched file is never renamed to <hash_id>.<format>.
reconcile_original_no_rename(d, image_file, image_format, original_exists) ==
    IF ~save_original THEN os_remove(d, image_file) ELSE d

\* Mutant: no "if not original_exists", a stored original is renamed as well.
reconcile_original_renames_stored(d, image_file, image_format, original_exists) ==
    IF ~save_original
    THEN os_remove(d, image_file)
    ELSE os_rename(d, image_file,
                   path_join(image_file.dir, Append(image_file.name, image_format)))

\* Mutant: a stored original is deleted once it has been used.
reconcile_original_removes_stored(d, image_file, image_format, original_exists) ==
    IF ~save_original \/ original_exists
    THEN os_remove(d, image_file)
    ELSE os_rename(d, image_file,
                   path_join(image_file.dir, Append(image_file.name, image_format)))

\* "Delete if the original image is not required to be saved", else
\* "Rename the original image file to the hash_id.format" unless it was there
reconcile_original(d, image_file, image_format, original_exists) ==
    IF ~save_original
    THEN os_remove(d, image_file)
    ELSE IF ~original_exists
         THEN os_rename(d, image_file,
                        path_join(image_file.dir, Append(image_file.name, image_format)))
         ELSE d

\* Whether reconcile_original runs a file-system operation at all.
reconcile_acts(original_exists) == ~save_original \/ ~original_exists

\* Mutant: the thumbnail written before the failure is rolled back.
after_late_failure_rolled_back(before, written) == before

\* "except Exception as e: logging.error(...); return None" after the thumbnail
\* was saved: the directories stay as the failed step found them
\* (before: at the start of the try block, written: with the thumbnail saved).
after_late_failure(before, written) == written

\* The part of generate_thumbnail after the image file is known.
\* Result: result, exit (the line that ends the call), failed (the file-system
\* operation that raised, "" if none), image, disk.
thumbnail_from_file(image_url, image_file, original_exists, failure, d) ==
    LET hash_id == md5_hexdigest(image_url)
        size == size_str(thumbnail_size)
        out(result, exit, failed, image, dd) ==
            [result |-> result, exit |-> exit, failed |-> failed, image |-> image, disk |-> dd]
    IN  IF ~path_exists(d, image_file) THEN out(None, "L111", "", NoImage, d)
        ELSE
        LET image == d[image_file.dir][image_file.name]
            image_format == lower(image.fmt)
            rec_fails == failure = "reconcile" /\ reconcile_acts(original_exists)
            thumbnail_file_name == <<hash_id, size, image_format>>
            thumbnail == [fmt |-> image.fmt, w |-> thumbnail_size[1], h |-> thumbnail_size[2]]
        IN  IF image.fmt = "" THEN out(None, "L114", "", NoImage, d)
            ELSE IF is_too_small(<<image.w, image.h>>, min_image_size)
            THEN IF rec_fails
                 THEN out(None, "L155", "reconcile", image, d)
                 ELSE out(None, "L132", "", image,
                          reconcile_original(d, image_file, image_format, original_exists))
            ELSE IF failure = "save" THEN out(None, "L155", "save", image, d)
            ELSE IF ~cache_dir
            THEN LET thumbnail_file == path_join(TMP_DIR, thumbnail_file_name)
                 IN  out(thumbnail_file, "L140", "", image,
                         write_file(d, thumbnail_file, thumbnail))
            ELSE LET thumbnail_file == path_join(THUMBNAILS_DIR, thumbnail_file_name)
                     d1 == write_file(d, thumbnail_file, thumbnail)
                 IN  IF rec_fails
                     THEN out(None, "L155", "reconcile", image, after_late_failure(d, d1))
                     ELSE out(thumbnail_file, "L152", "", image,
                              reconcile_original(d1, image_file, image_format, original_exists))

\* The whole call.  Result: result, exit, raised, net (the outcome of the GET,
\* "" when fetch_original_image was not called), gets, wgets, fetched
\* (fetch_original_image returned a file), failed (the file-system operation
\* that raised after the fetch, "" if none), image (what Image.open read), disk.
generate_thumbnail_result(image_url, net, data, wget_writes, failure, d) ==
    LET hash_id == md5_hexdigest(image_url)
        path == has_thumbnail(image_url)
        cached == has_original(image_url)
        original_exists == cached # None
        f == fetch_original_image(hash_id, net, data, wget_writes, failure, d)
        out(result, exit, raised, fetch, fetched, failed, image, dd) ==
            [result |-> result, exit |-> exit, raised |-> raised, failed |-> failed,
             net |-> IF fetch THEN net ELSE "",
             gets |-> IF fetch THEN f.gets ELSE 0,
             wgets |-> IF fetch THEN f.wgets ELSE 0,
             fetched |-> fetched, image |-> image, disk |-> dd]
    IN  IF path # None THEN out(path, "L87", FALSE, FALSE, FALSE, "", NoImage, d)
        ELSE IF original_exists
        THEN LET t == thumbnail_from_file(image_url, cached, TRUE, failure, d)
             IN  out(t.result, t.exit, FALSE, FALSE, FALSE, t.failed, t.image, t.disk)
        ELSE IF f.raised THEN out(None, "raise", TRUE, TRUE, FALSE, "", NoImage, f.disk)
        ELSE IF f.ret = None THEN out(None, "L100", FALSE, TRUE, FALSE, "", NoImage, f.disk)
        ELSE LET t == thumbnail_from_file(image_url, f.ret, FALSE, failure, f.disk)
             IN  out(t.result, t.exit, FALSE, TRUE, TRUE, t.failed, t.image, t.disk)

generate_thumbnail(image_url, net, data, wget_writes, failure) ==
    /\ ncalls < MaxCalls
    /\ LET g == generate_thumbnail_result(image_url, net, data, wget_writes, failure, disk)
       IN  /\ disk' = g.disk
           /\ last' = [op |-> "generate_thumbnail", url |-> image_url, keep_orig |-> FALSE,
                       result |-> g.result, exit |-> g.exit, raised |-> g.raised,
                       failed |-> g.failed,
                       net |-> g.net, gets |-> g.gets, wgets |-> g.wgets, fetched |-> g.fetched,
                       image |-> g.image]
    /\ ncalls' = ncalls + 1
    /\ UNCHANGED <<config, file_names, original_file_names>>

-----------------------------------------------------------------------------
(* remove_thumbnail *)

\* "if hash_id in self.file_names: ... del self.file_names[hash_id]".  The two
\* os.remove calls are commented out, and nothing in the try block can raise
\* for an entry that __init__ loaded.
\* Result: index (file_names after), exit (the line that ends the call), raised.
\* Mutant: no "if hash_id in self.file_names" and no try, so that the del of an
\* unknown hash_id raises KeyError.
remove_entry_unguarded(index, hash_id) ==
    IF hash_id \in DOMAIN index
    THEN [index |-> del(index, hash_id), exit |-> "L197", raised |-> FALSE]
    ELSE [index |-> index, exit |-> "L197", raised |-> TRUE]

remove_entry(index, hash_id) ==
    IF hash_id \in DOMAIN index
    THEN [index |-> del(index, hash_id), exit |-> "L197", raised |-> FALSE]
    ELSE [index |-> index, exit |-> "L187", raised |-> FALSE]

remove_thumbnail(image_url, keep_orig) ==
    /\ ncalls < MaxCalls
    /\ LET r == remove_entry(file_names, md5_hexdigest(image_url))
       IN  /\ file_names' = r.index
           /\ last' = [op |-> "remove_thumbnail", url |-> image_url, keep_orig |-> keep_orig,
                       result |-> None, exit |-> r.exit, raised |-> r.raised,
                       failed |-> "",
                       net |-> "", gets |-> 0, wgets |-> 0, fetched |-> FALSE, image |-> NoImage]
    /\ ncalls' = ncalls + 1
    /\ UNCHANGED <<config, original_file_names, disk>>

-----------------------------------------------------------------------------
(* The program *)

NoCall == [op |-> "__init__", url |-> "", keep_orig |-> FALSE,
           result |-> None, exit |-> "", raised |-> FALSE, failed |-> "",
           net |-> "", gets |-> 0, wgets |-> 0, fetched |-> FALSE, image |-> NoImage]

\* A cache directory never used.
FreshDisk == [dir \in {THUMBNAILS_DIR, ORIGINALS_DIR, TMP_DIR} |-> EmptyDir]

UrlA == "https://example.com/a.jpg"
UrlB == "https://example.com/b.png"

\* Files that are not the cache's: names of one, two, three and four components.
ForeignNames == {<<"README">>, <<"notes", "txt">>, <<"backup", "tar", "gz">>,
                 <<"a", "b", "c", "d">>}

\* A cache directory as earlier managers (DEFAULT_SIZE, save_original=True,
\* STRICT_MIN_SIZE) left it: UrlA has its thumbnail and its original, UrlB
\* was rejected as too small and has its original only; files of other
\* programs lie in both directories.
UsedThumbnails ==
    [n \in ForeignNames \cup {<<md5_hexdigest(UrlA), size_str(DEFAULT_SIZE), "jpeg">>} |->
        IF n \in ForeignNames THEN NotAnImage
        ELSE [fmt |-> "JPEG", w |-> DEFAULT_SIZE[1], h |-> DEFAULT_SIZE[2]]]
UsedOriginals ==
    [n \in ForeignNames \cup {<<md5_hexdigest(UrlA), "jpeg">>, <<md5_hexdigest(UrlB), "jpeg">>} |->
        IF n \in ForeignNames THEN NotAnImage
        ELSE IF n[1] = md5_hexdigest(UrlA) THEN Jpeg3x3 ELSE Jpeg1x3]
UsedDisk ==
    [dir \in {THUMBNAILS_DIR, ORIGINALS_DIR, TMP_DIR} |->
        IF dir = THUMBNAILS_DIR THEN UsedThumbnails
        ELSE IF dir = ORIGINALS_DIR THEN UsedOriginals ELSE EmptyDir]

\* UsedDisk after UrlA was generated once more, its server then sending a PNG.
RegeneratedDisk ==
    write_file(
        write_file(UsedDisk,
                   path_join(THUMBNAILS_DIR, <<md5_hexdigest(UrlA), size_str(DEFAULT_SIZE), "png">>),
                   [fmt |-> "PNG", w |-> DEFAULT_SIZE[1], h |-> DEFAULT_SIZE[2]]),
        path_join(ORIGINALS_DIR, <<md5_hexdigest(UrlA), "png">>), Png3x3)

\* A manager constructed over a cache directory, fresh or used.
Init ==
    /\ disk \in {FreshDisk, UsedDisk, RegeneratedDisk}
    /\ \E cfg \in Configs :
          /\ thumbnail_size = cfg[1]
          /\ min_image_size = cfg[2]
          /\ save_original = cfg[3]
          /\ cache_dir = cfg[4]
          /\ file_names \in (IF cfg[4] THEN load_index(disk[THUMBNAILS_DIR], 3) ELSE {EmptyIndex})
          /\ original_file_names \in
                 (IF cfg[3] /\ cfg[4] THEN load_index(disk[ORIGINALS_DIR], 2) ELSE {EmptyIndex})
    /\ ncalls = 0
    /\ last = NoCall

\* The manager is discarded and a new one constructed over the same directories.
construct(cfg) ==
    /\ ncalls < MaxCalls
    /\ constructed(cfg, disk)
    /\ last' = NoCall
    /\ ncalls' = ncalls + 1
    /\ UNCHANGED disk

Next ==
    \/ \E cfg \in Configs : construct(cfg)
    \/ \E image_url \in Urls, a \in Answers :
          generate_thumbnail(image_url, a.net, a.data, a.wget, a.failure)
    \/ \E image_url \in Urls, keep_orig \in BOOLEAN : remove_thumbnail(image_url, keep_orig)

Spec == Init /\ [][Next]_vars

-----------------------------------------------------------------------------
(* Properties *)

\* The step is a call of method op (construct counts as "__init__").
Called(op) == ncalls' = ncalls + 1 /\ last'.op = op

\* C1 (idempotence): with a cache directory, if generate_thumbnail(u)
\* returned a path p, the next generate_thumbnail(u) on the same manager
\* returns p again and makes no HTTP GET and no wget run.
C1_Idempotence ==
    [][(/\ last.op = "generate_thumbnail"
        /\ last.result # None
        /\ cache_dir
        /\ Called("generate_thumbnail")
        /\ last'.url = last.url)
       => (/\ last'.result = last.result
           /\ last'.gets = 0
           /\ last'.wgets = 0)]_vars

\* C2 (persist records the thumbnail): with a cache directory, after
\* generate_thumbnail(u) returned a path p, has_thumbnail(u) is p.
C2_PersistRecordsThumbnail ==
    (/\ last.op = "generate_thumbnail"
     /\ last.result # None
     /\ cache_dir)
    => has_thumbnail(last.url) = last.result

C4_SizeGating ==
    [][\A u \in Urls :
        (/\ Called("generate_thumbnail")
         /\ last'.url = u
         /\ last'.image.fmt # ""
         /\ (last'.image.w < min_image_size[1] \/ last'.image.h < min_image_size[2]))
        => (/\ last'.result = None
            /\ ~last'.raised
            /\ disk'[THUMBNAILS_DIR] = disk[THUMBNAILS_DIR]
            /\ \A n \in DOMAIN disk'[TMP_DIR] : Len(n) = 3 => n \in DOMAIN disk[TMP_DIR]
            /\ file_names' = file_names
            /\ (has_thumbnail(u) = None => has_thumbnail(u)' = None))]_vars

\* C4 witness: a stored original that is too small was opened and rejected.
C4_Witness ==
    /\ last.op = "generate_thumbnail"
    /\ last.exit = "L132"
    /\ ~last.fetched
    /\ save_original
    /\ last.image.w < min_image_size[1]

\* C5 (removal): after remove_thumbnail(u, keep_orig=False) on a manager
\* where has_thumbnail(u) was a path, has_thumbnail(u) is None and, if
\* has_original(u) was a path before, has_original(u) is None too.
C5_RemovalDropsBoth ==
    [][\A u \in Urls :
        (/\ Called("remove_thumbnail")
         /\ last'.url = u
         /\ ~last'.keep_orig
         /\ has_thumbnail(u) # None)
        => (/\ has_thumbnail(u)' = None
            /\ (has_original(u) # None => has_original(u)' = None))]_vars

\* C6 (removal of an unknown URL): remove_thumbnail(u, k) for a u whose
\* hash_id is not in file_names raises nothing and leaves file_names,
\* original_file_names and every file as they were, for both values of k.
C6_RemoveUnknownIsNoOp ==
    [][\A u \in Urls :
        (/\ Called("remove_thumbnail")
         /\ last'.url = u
         /\ md5_hexdigest(u) \notin DOMAIN file_names)
        => (/\ ~last'.raised
            /\ UNCHANGED <<file_names, original_file_names, disk>>)]_vars

\* C6 witness: an unknown URL was removed from an index that knows another.
C6_Witness ==
    /\ last.op = "remove_thumbnail"
    /\ last.exit = "L187"
    /\ DOMAIN file_names # {}
    /\ DOMAIN original_file_names # {}

\* C7 (fetch protocol): one generate_thumbnail call makes at most one HTTP
\* GET; it runs the wget fallback iff the GET failed with HTTP 403, and then
\* once; a call whose fallback produced a file ends as some call with a
\* successful GET would have ended (same exit, result, image, cache
\* directories); after HTTP 404, a timeout, a malformed URL or a URL error the
\* fallback is not run, the call returns None and no file is written.
C7_FetchProtocol ==
    [][\A u \in Urls :
        (Called("generate_thumbnail") /\ last'.url = u)
        => (/\ last'.gets <= 1
            /\ last'.wgets <= 1
            /\ (last'.wgets = 1 <=> (last'.net = "HTTP403" /\ last'.gets = 1))
            /\ (last'.net = "HTTP403" /\ last'.fetched)
                  => \E data \in Bytes, failure \in Failures :
                        LET g == generate_thumbnail_result(u, "ok", data, FALSE, failure, disk)
                        IN  /\ g.fetched
                            /\ g.result = last'.result
                            /\ g.exit = last'.exit
                            /\ g.image = last'.image
                            /\ g.disk[THUMBNAILS_DIR] = disk'[THUMBNAILS_DIR]
                            /\ g.disk[ORIGINALS_DIR] = disk'[ORIGINALS_DIR]
            /\ last'.net \in {"HTTP404", "TimeoutError", "ValueError", "URLError"}
                  => (/\ last'.wgets = 0
                      /\ last'.result = None
                      /\ ~last'.raised
                      /\ last'.exit = "L100"
                      /\ disk' = disk))]_vars

\* C7 witness: a GET answered 403, one wget run, and the thumbnail persisted.
C7_Witness ==
    /\ last.op = "generate_thumbnail"
    /\ last.net = "HTTP403"
    /\ last.gets = 1
    /\ last.wgets = 1
    /\ last.exit = "L152"

\* C8 (no exception leaves generate_thumbnail): whatever the options and
\* whatever fails, the call raises nothing, returns None unless it produced a
\* thumbnail, and leaves both indexes as they were.
C8_NeverRaises ==
    [][Called("generate_thumbnail")
       => (/\ ~last'.raised
           /\ (last'.exit \notin {"L87", "L140", "L152"} => last'.result = None)
           /\ UNCHANGED <<file_names, original_file_names>>)]_vars

\* C9 (retention disabled): when generate_thumbnail(u) with save_original
\* off has fetched an image and returned a thumbnail path or rejected the
\* image as too small, the fetched bytes are in no file: nothing was written
\* under the originals directory and the scratch file is gone, with and
\* without a cache directory.
C9_NoOriginalLeftBehind ==
    [][\A u \in Urls :
        (/\ Called("generate_thumbnail")
         /\ last'.url = u
         /\ ~save_original
         /\ last'.fetched
         /\ last'.exit \in {"L132", "L140", "L152"})
        => (/\ disk'[ORIGINALS_DIR] = disk[ORIGINALS_DIR]
            /\ <<"tmp_" \o md5_hexdigest(u)>> \notin DOMAIN disk'[TMP_DIR])]_vars

\* C10 (retention enabled): when generate_thumbnail(u) with save_original on
\* and a cache directory has fetched an image and returned a thumbnail path
\* or rejected the image as too small, the originals directory holds the
\* fetched image under the name <md5(u)>.<lowercase format>.
C10_OriginalKept ==
    \A u \in Urls :
        (/\ last.op = "generate_thumbnail"
         /\ last.url = u
         /\ save_original
         /\ cache_dir
         /\ last.fetched
         /\ last.exit \in {"L132", "L152"})
        => LET name == <<md5_hexdigest(u), IF last.image.fmt = "JPEG" THEN "jpeg" ELSE "png">>
           IN  /\ name \in DOMAIN disk[ORIGINALS_DIR]
               /\ disk[ORIGINALS_DIR][name] = last.image

\* C10 witness: a fetched image was rejected as too small and kept as original.
C10_Witness ==
    /\ last.op = "generate_thumbnail"
    /\ save_original
    /\ cache_dir
    /\ last.fetched
    /\ last.exit = "L132"

\* C11 (no repeated fetch of a rejected image): with save_original on and a
\* cache directory, once generate_thumbnail(u) has fetched the image and
\* rejected it as too small, the next generate_thumbnail(u) on the same
\* manager makes no HTTP GET and no wget run.
C11_RejectedNotRefetched ==
    [][(/\ last.op = "generate_thumbnail"
        /\ last.exit = "L132"
        /\ last.fetched
        /\ save_original
        /\ cache_dir
        /\ Called("generate_thumbnail")
        /\ last'.url = last.url)
       => (/\ last'.gets = 0
           /\ last'.wgets = 0)]_vars

\* C12 (thumbnail cache hit): when file_names holds the hash_id of u,
\* generate_thumbnail(u) returns the path of that entry in the thumbnails
\* directory, makes no HTTP GET and no wget run, and leaves both indexes and
\* every file as they were.
C12_ThumbnailHit ==
    [][\A u \in Urls :
        (/\ Called("generate_thumbnail")
         /\ last'.url = u
         /\ md5_hexdigest(u) \in DOMAIN file_names)
        => (/\ last'.result = [dir |-> THUMBNAILS_DIR, name |-> file_names[md5_hexdigest(u)]]
            /\ ~last'.raised
            /\ last'.gets = 0
            /\ last'.wgets = 0
            /\ UNCHANGED <<file_names, original_file_names, disk>>)]_vars

\* C12 witness: a call answered from file_names.
C12_Witness ==
    /\ last.op = "generate_thumbnail"
    /\ last.exit = "L87"
    /\ md5_hexdigest(last.url) \in DOMAIN file_names
    /\ last.result # None

\* C13 (original cache hit): with save_original on, when file_names does not
\* hold the hash_id of u and original_file_names does, generate_thumbnail(u)
\* makes no HTTP GET and no wget run, and the stored original is still there
\* under its name with its bytes, whether the call returns a thumbnail path,
\* rejects the image as too small or fails.
C13_OriginalHit ==
    [][\A u \in Urls :
        (/\ Called("generate_thumbnail")
         /\ last'.url = u
         /\ save_original
         /\ md5_hexdigest(u) \notin DOMAIN file_names
         /\ md5_hexdigest(u) \in DOMAIN original_file_names)
        => (/\ last'.gets = 0
            /\ last'.wgets = 0
            /\ ~last'.fetched
            /\ ~last'.raised
            /\ disk'[ORIGINALS_DIR] = disk[ORIGINALS_DIR])]_vars

\* C13 witness: a thumbnail was made from a stored original.
C13_Witness ==
    /\ last.op = "generate_thumbnail"
    /\ last.exit = "L152"
    /\ last.net = ""
    /\ save_original
    /\ md5_hexdigest(last.url) \in DOMAIN original_file_names

\* C14 (initialisation tolerates any directory contents): after every
\* construction, whatever names the two directories hold, no exception was
\* raised, file_names holds exactly the first components of the thumbnail
\* directory's names of three components, each mapped to such a name of its
\* key, original_file_names (with save_original on) the same for the originals
\* directory's names of two components, and no other name is in an index.
C14_InitTolerant ==
    last.op = "__init__"
    => LET thumbnails == IF cache_dir THEN DOMAIN disk[THUMBNAILS_DIR] ELSE {}
           originals == IF cache_dir /\ save_original THEN DOMAIN disk[ORIGINALS_DIR] ELSE {}
       IN  /\ ~last.raised
           /\ DOMAIN file_names = {n[1] : n \in {m \in thumbnails : Len(m) = 3}}
           /\ \A k \in DOMAIN file_names :
                 /\ file_names[k] \in thumbnails
                 /\ Len(file_names[k]) = 3
                 /\ file_names[k][1] = k
           /\ DOMAIN original_file_names = {n[1] : n \in {m \in originals : Len(m) = 2}}
           /\ \A k \in DOMAIN original_file_names :
                 /\ original_file_names[k] \in originals
                 /\ Len(original_file_names[k]) = 2
                 /\ original_file_names[k][1] = k

\* C14 witness: a manager constructed, after some calls, over directories
\* that hold names of one, two, three and four components.
C14_Witness ==
    /\ last.op = "__init__"
    /\ ncalls > 0
    /\ cache_dir
    /\ save_original
    /\ \A len \in 1..4 :
          /\ \E n \in DOMAIN disk[THUMBNAILS_DIR] : Len(n) = len
          /\ \E n \in DOMAIN disk[ORIGINALS_DIR] : Len(n) = len
    /\ DOMAIN file_names # {}
    /\ DOMAIN original_file_names # {}

\* C15 (no rollback on a late failure): when generate_thumbnail(u) has saved
\* the thumbnail file and the os.remove / os.rename of the original that
\* follows raises, the call returns None, raises nothing, and the thumbnail
\* file <md5(u)>.<WxH>.<format> is in the thumbnails directory when it returns.
C15_NoRollback ==
    [][\A u \in Urls :
        (/\ Called("generate_thumbnail")
         /\ last'.url = u
         /\ cache_dir
         /\ last'.failed = "reconcile"
         /\ ~(last'.image.w < min_image_size[1] \/ last'.image.h < min_image_size[2]))
        => (/\ last'.result = None
            /\ ~last'.raised
            /\ <<md5_hexdigest(u), size_str(thumbnail_size), lower(last'.image.fmt)>>
                  \in DOMAIN disk'[THUMBNAILS_DIR])]_vars

\* C15 witness: the reconcile step failed after a thumbnail was saved.
C15_Witness ==
    /\ last.op = "generate_thumbnail"
    /\ last.failed = "reconcile"
    /\ last.exit = "L155"
    /\ last.image.w >= min_image_size[1]
    /\ last.image.h >= min_image_size[2]
    /\ <<md5_hexdigest(last.url), size_str(thumbnail_size), lower(last.image.fmt)>>
          \in DOMAIN disk[THUMBNAILS_DIR]

\* C16 (removal is authoritative): after remove_thumbnail(u, k) has removed
\* the record of u, has_thumbnail(u) is None after every next call that is not a
\* generate_thumbnail(u) returning a path, the construction of a new manager
\* on the same directories included.
C16_RemovalAuthoritative ==
    [][\A u \in Urls :
        (/\ last.op = "remove_thumbnail"
         /\ last.exit = "L197"
         /\ last.url = u
         /\ ~(Called("generate_thumbnail") /\ last'.url = u /\ last'.result # None))
        => has_thumbnail(u)' = None]_vars

\* C17 (returned size is the configured size): every path has_thumbnail(u)
\* or generate_thumbnail(u) returns names a file <key>.<WxH>.<format> whose
\* WxH is the manager's thumbnail_size, whoever filled the cache directory.
C17_ReturnedSizeIsConfigured ==
    /\ \A u \in Urls :
          has_thumbnail(u) # None
          => has_thumbnail(u).name[2] = size_str(thumbnail_size)
    /\ (last.op = "generate_thumbnail" /\ last.result # None)
          => last.result.name[2] = size_str(thumbnail_size)

\* C18 (no dangling index entries): in every state of a manager, every
\* entry of file_names names a file of the thumbnails directory and every
\* entry of original_file_names names a file of the originals directory.
C18_NoDanglingEntries ==
    /\ \A k \in DOMAIN file_names : file_names[k] \in DOMAIN disk[THUMBNAILS_DIR]
    /\ \A k \in DOMAIN original_file_names :
          original_file_names[k] \in DOMAIN disk[ORIGINALS_DIR]

\* C18 witness: a call used a stored original and failed to save the
\* thumbnail, on a manager with entries in both indexes.
C18_Witness ==
    /\ last.op = "generate_thumbnail"
    /\ last.failed = "save"
    /\ ~last.fetched
    /\ DOMAIN file_names # {}
    /\ md5_hexdigest(last.url) \in DOMAIN original_file_names

\* C19 (originals keep the file-name encoding): with save_original on and a
\* cache directory, when generate_thumbnail(u) has returned a path, rejected
\* the image as too small or failed to decode the fetched bytes, every file
\* it added to the originals directory is named <md5(u)>.<format>.
C19_OriginalsKeepEncoding ==
    [][\A u \in Urls :
        (/\ Called("generate_thumbnail")
         /\ last'.url = u
         /\ save_original
         /\ cache_dir
         /\ last'.exit \in {"L152", "L132", "L114"})
        => \A n \in (DOMAIN disk'[ORIGINALS_DIR]) \ (DOMAIN disk[ORIGINALS_DIR]) :
              /\ Len(n) = 2
              /\ n[1] = md5_hexdigest(u)]_vars

=============================================================================
